---- MODULE Spec2Model ----
(***************************************************************************)
(* A model of pyfc4 (src/pyfc4/models.py): Resource objects held by a      *)
(* single-threaded caller, and the LDP repository they talk to through     *)
(* API.http_request.  Every caller-visible method is one action; a method  *)
(* that calls other methods (create -> _handle_create -> refresh ->        *)
(* get_resource) is modelled by operators that thread a "world" record     *)
(* holding the server state, the local objects and the request log.        *)
(***************************************************************************)
EXTENDS Integers, Sequences, FiniteSets, TLC

VARIABLES srv,      \* the repository server: type, tombstone and graph per URI
          res,      \* the caller's Resource objects, one per handle
          dflt,     \* the shared default `headers={}` dict of each class
          context,  \* Repository.context: the namespace prefixes of the repository
          txns,     \* Repository.txns: the transactions of the repository, by name
          last,     \* the call that was just made: its arguments, requests, outcome
          calls     \* how many calls the program has made

vars == <<srv, res, dflt, context, txns, last, calls>>

\* the program makes at most this many calls
MaxCalls == 3

-----------------------------------------------------------------------------
(* URIs, resource types, triples, headers                                   *)

\* local variables that name Resource objects in the calling program
Handles == {"A"}

\* paths below the repository root; the root itself always exists
X  == <<"x">>
Y  == <<"y">>
URIs == {X, Y, <<"x", "c">>}

IsUnder(u, a) == Len(a) <= Len(u) /\ SubSeq(u, 1, Len(a)) = a

NonRDFSource == "NonRDFSource"
BasicContainer == "BasicContainer"
DirectContainer == "DirectContainer"
IndirectContainer == "IndirectContainer"
Kinds == {NonRDFSource, BasicContainer, DirectContainer, IndirectContainer}
Absent == "absent"

\* a triple of a resource's graph is <<predicate, object value, object datatype>>: the
\* subject is the resource; the datatype is "" for a plain literal and URIRef for a URI
XSDstring == "xsd:string"
URIRef == "URIRef"
Literal(v, datatype) == <<v, datatype>>
Triple(p, o) == <<p>> \o o
Titles == {"t1", "t2"}
TitleTriples == {Triple("dc:title", Literal(t, XSDstring)) : t \in Titles}
TypeTriple(k) == Triple("rdf:type", <<k, URIRef>>)
MimeTriple == Triple("ebucore:hasMimeType", Literal("text/plain", XSDstring))
NoGraph == {}

\* namespace URIs, and graph.compute_qname(p): the namespace URI of a predicate
DC == "http://purl.org/dc/elements/1.1/"
RDF == "http://www.w3.org/1999/02/22-rdf-syntax-ns#"
EBUCORE == "http://www.ebu.ch/metadata/ontologies/ebucore/ebucore#"
compute_qname(p) ==
    CASE p = "dc:title" -> DC
      [] p = "rdf:type" -> RDF
      [] p = "ebucore:hasMimeType" -> EBUCORE
      [] OTHER -> "http://example.org/ns#"

\* Repository.context, the class's dictionary of prefixes, as <<prefix, namespace URI>> pairs
RepositoryContext ==
    {<<"dc", DC>>, <<"rdf", RDF>>, <<"ebucore", EBUCORE>>, <<"foaf", "http://xmlns.com/foaf/0.1/">>}
\* dict.update: a key of the update replaces the binding of that key
DictUpdate(d, u) == {b \in d : \A c \in u : c[1] # b[1]} \cup u

\* a headers dict, reduced to the keys the code reads or writes ("" = key absent)
NoHeaders == [ct |-> "", cl |-> "", etag |-> ""]
default_serialization == "application/rdf+xml"
IsRdfType(ct) == ct = default_serialization

\* HTTP statuses a misbehaving or overloaded server answers with instead of the regular one
FaultStatuses == {415, 500}
NoFault == [at |-> 0, status |-> 0]
MaxFaultAt == 2
Faults == {NoFault} \cup [at : 1..MaxFaultAt, status : FaultStatuses]

-----------------------------------------------------------------------------
(* The repository server, as far as the client's requests observe it        *)

\* what a request carries: data tells whether it has a payload (data is not None), slug
\* is its Slug header
NoBody == [ct |-> "", binary |-> FALSE, g |-> NoGraph, del |-> NoGraph, ins |-> NoGraph,
           dest |-> <<>>, data |-> FALSE, slug |-> ""]

SrvExists(s, u) == s.type[u] # Absent
\* a tombstone at u or above it answers 410 for everything at u
SrvBlocked(s, u) == \E t \in s.tomb : IsUnder(u, t)

\* the repository root, the URI of the server's i-th transaction and the Expires header
\* of the response that tells of a transaction
Root == <<>>
TxUri(i) == <<"tx:" \o ToString(i)>>
Expires(txn_uri) == <<"Expires">> \o txn_uri

\* a URI below the URI of a transaction, the transaction it belongs to, its path in the
\* store of the transaction, and the store a URI is answered from
IsTxUri(s, u) == u # <<>> /\ \E i \in s.txs : <<u[1]>> = TxUri(i)
TxOf(s, u) == CHOOSE i \in s.txs : <<u[1]>> = TxUri(i)
WithoutTx(s, u) == IF IsTxUri(s, u) THEN Tail(u) ELSE u
StoreOf(s, u) == IF IsTxUri(s, u) THEN s.open[TxOf(s, u)] ELSE s

\* the versions of a resource are kept oldest first, each with its label and what the
\* resource was when the version was made; the version labelled l of u has the URI
\* u/fcr:versions/l
VersionUri(u, label) == u \o <<"fcr:versions", label>>
IsVersionUri(v) == Len(v) >= 3 /\ v[Len(v) - 1] = "fcr:versions"
VersionedUri(v) == SubSeq(v, 1, Len(v) - 2)
VersionLabels(s, u) == {s.ver[u][n].label : n \in DOMAIN s.ver[u]}
Version(s, v) ==
    LET versions == s.ver[VersionedUri(v)]
    IN  versions[CHOOSE n \in DOMAIN versions : versions[n].label = v[Len(v)]]

\* what the store holds at a path: a resource, or a version of one
Held(st, path) ==
    IF IsVersionUri(path) THEN [type |-> Version(st, path).type, graph |-> Version(st, path).graph]
    ELSE [type |-> st.type[path], graph |-> st.graph[path]]

\* the triples a GET of u/fcr:metadata returns: the stored ones and the server-managed ones
ServedGraph(s, u) ==
    LET served(graph, type) ==
            graph \cup {TypeTriple(type)} \cup (IF type = NonRDFSource THEN {MimeTriple} ELSE {})
    IN  served(Held(StoreOf(s, u), WithoutTx(s, u)).graph,
               Held(StoreOf(s, u), WithoutTx(s, u)).type)

\* the LDP relation values of the Link header a HEAD of u returns
ServedLinks(s, u) ==
    LET links(type) ==
            {"ldp:Resource", type}
                \cup (IF type = NonRDFSource THEN {} ELSE {"ldp:RDFSource", "ldp:Container"})
    IN  links(Held(StoreOf(s, u), WithoutTx(s, u)).type)

\* the resource type the server gives a resource created from this request body
TypeOfBody(b) ==
    IF ~IsRdfType(b.ct) THEN NonRDFSource
    ELSE IF TypeTriple(DirectContainer) \in b.g THEN DirectContainer
    ELSE IF TypeTriple(IndirectContainer) \in b.g THEN IndirectContainer
    ELSE BasicContainer

\* missing ancestors of a created path come into being as plain containers
WithAncestors(s, u) ==
    [s EXCEPT !.type = [v \in URIs |->
        IF v # u /\ IsUnder(u, v) /\ s.type[v] = Absent THEN BasicContainer ELSE s.type[v]]]

\* triples the server manages itself and refuses to take from a client
ServerManaged(t) == t[1] \in {"rdf:type", "ebucore:hasMimeType"}
\* the server keeps a plain literal as an xsd:string literal (test_add_triples)
Stored(g) == {IF t[3] = "" THEN <<t[1], t[2], XSDstring>> ELSE t : t \in g}

Put(s, u, kind, g) ==
    LET s1 == WithAncestors(s, u)
    IN  [s1 EXCEPT !.type[u] = kind, !.graph[u] = Stored({t \in g : ~ServerManaged(t)})]

Removed(s, u) ==
    [s EXCEPT !.type  = [v \in URIs |-> IF IsUnder(v, u) THEN Absent ELSE s.type[v]],
              !.graph = [v \in URIs |-> IF IsUnder(v, u) THEN NoGraph ELSE s.graph[v]],
              !.ver   = [v \in URIs |-> IF IsUnder(v, u) THEN <<>> ELSE s.ver[v]],
              !.tomb  = s.tomb \cup {u}]

FreeChildren(s, u) ==
    {c \in URIs : /\ Len(c) = Len(u) + 1 /\ IsUnder(c, u)
                  /\ ~SrvExists(s, c) /\ ~SrvBlocked(s, c)}

Reply(s, status, text, over) == [srv |-> s, status |-> status, text |-> text, over |-> over]

\* a request at u/fcr:versions: a POST makes a version of the resource as the server has
\* it, labelled with the Slug; a GET lists the versions
AnswerVersions(s, verb, u, label) ==
    IF SrvBlocked(s, u) THEN Reply(s, 410, u, FALSE)
    ELSE IF ~SrvExists(s, u) THEN Reply(s, 404, u, FALSE)
    ELSE IF verb = "POST" THEN
        IF label \in VersionLabels(s, u) THEN Reply(s, 409, u, FALSE)
        ELSE Reply([s EXCEPT !.ver[u] = Append(@, [label |-> label, type |-> s.type[u],
                                                   graph |-> s.graph[u]])],
                   201, VersionUri(u, label), FALSE)
    ELSE Reply(s, IF s.ver[u] = <<>> THEN 404 ELSE 200, u, FALSE)

\* a request at the URI of a version: a PATCH reverts the resource to the version, a
\* DELETE removes the version unless it is the most recent one
AnswerVersion(s, verb, v) ==
    LET u == VersionedUri(v)
        others == SelectSeq(s.ver[u], LAMBDA version : version.label # v[Len(v)])
    IN  IF SrvBlocked(s, u) THEN Reply(s, 410, v, FALSE)
        ELSE IF v[Len(v)] \notin VersionLabels(s, u) THEN Reply(s, 404, v, FALSE)
        ELSE IF verb = "PATCH"
        THEN Reply([s EXCEPT !.graph[u] = Version(s, v).graph], 204, v, FALSE)
        ELSE IF verb = "DELETE" THEN
            IF s.ver[u][Len(s.ver[u])].label = v[Len(v)] THEN Reply(s, 400, v, FALSE)
            ELSE Reply([s EXCEPT !.ver[u] = others], 204, v, FALSE)
        ELSE Reply(s, 200, v, FALSE)

\* the regular answer of the server to one request on the resources of a store (of the
\* repository, or of a transaction); `over` tells that the answer needs a path outside
\* URIs (a second minted child, a moved subtree)
AnswerStore(s, verb, u, suffix, b) ==
    IF IsVersionUri(u) THEN AnswerVersion(s, verb, u)
    ELSE IF suffix = "fcr:versions" THEN AnswerVersions(s, verb, u, b.slug)
    ELSE IF suffix = "fcr:tombstone" THEN
        IF verb = "DELETE" /\ u \in s.tomb
        THEN Reply([s EXCEPT !.tomb = s.tomb \ {u}], 204, u, FALSE)
        ELSE Reply(s, 404, u, FALSE)
    ELSE IF SrvBlocked(s, u) THEN Reply(s, 410, u, FALSE)
    ELSE IF verb = "PUT" THEN
        IF SrvExists(s, u) THEN
            IF s.type[u] = NonRDFSource /\ b.binary /\ ~IsRdfType(b.ct)
            THEN Reply(s, 204, u, FALSE)
            ELSE Reply(s, 409, u, FALSE)
        ELSE IF b.binary /\ IsRdfType(b.ct) THEN Reply(s, 400, u, FALSE)
        ELSE Reply(Put(s, u, TypeOfBody(b), b.g), 201, u, FALSE)
    ELSE IF ~SrvExists(s, u) THEN Reply(s, 404, u, FALSE)
    ELSE IF verb = "POST" THEN
        IF b.binary /\ IsRdfType(b.ct) THEN Reply(s, 400, u, FALSE)
        ELSE IF FreeChildren(s, u) = {} THEN Reply(s, 201, u, TRUE)
        ELSE LET minted == CHOOSE c \in FreeChildren(s, u) : TRUE
             IN  Reply(Put(s, minted, TypeOfBody(b), b.g), 201, minted, FALSE)
    ELSE IF verb = "DELETE" THEN Reply(Removed(s, u), 204, u, FALSE)
    ELSE IF verb = "PATCH" THEN
        IF \E t \in b.del \cup b.ins : ServerManaged(t)
        THEN Reply(s, 409, u, FALSE)
        ELSE Reply([s EXCEPT !.graph[u] = (s.graph[u] \ Stored(b.del)) \cup Stored(b.ins)],
                   204, u, FALSE)
    ELSE IF verb \in {"MOVE", "COPY"} THEN
        IF IsUnder(b.dest, u) THEN Reply(s, 409, u, FALSE)
        ELSE IF SrvExists(s, b.dest) \/ SrvBlocked(s, b.dest) THEN Reply(s, 412, u, FALSE)
        ELSE LET s1 == Put(s, b.dest, s.type[u], s.graph[u])
             IN  Reply(IF verb = "MOVE" THEN Removed(s1, u) ELSE s1, 201, b.dest,
                       \E c \in URIs : c # u /\ IsUnder(c, u) /\ SrvExists(s, c))
    ELSE Reply(s, 200, u, FALSE)   \* HEAD, GET, OPTIONS

\* a transaction the server has open: the store as the transaction sees it, the store as
\* it was when the transaction began, and the time the transaction expires
BeginTx(s, i) ==
    [type |-> s.type, tomb |-> s.tomb, graph |-> s.graph, ver |-> s.ver,
     base |-> [type |-> s.type, tomb |-> s.tomb, graph |-> s.graph, ver |-> s.ver],
     expires |-> Expires(TxUri(i))]


\* the end of a transaction: a rollback drops its store, a commit writes what the
\* transaction changed into the repository
RolledBack(s, i) == [s EXCEPT !.open = [j \in DOMAIN @ \ {i} |-> @[j]]]
Committed(s, i) ==
    LET t == s.open[i]
        changed(u) == \/ t.type[u] # t.base.type[u] \/ t.graph[u] # t.base.graph[u]
                      \/ t.ver[u] # t.base.ver[u]
    IN  [RolledBack(s, i) EXCEPT
            !.type = [u \in URIs |-> IF changed(u) THEN t.type[u] ELSE @[u]],
            !.graph = [u \in URIs |-> IF changed(u) THEN t.graph[u] ELSE @[u]],
            !.ver = [u \in URIs |-> IF changed(u) THEN t.ver[u] ELSE @[u]],
            !.tomb = (@ \ (t.base.tomb \ t.tomb)) \cup (t.tomb \ t.base.tomb)]

\* a request below the URI of a transaction: answered from the store of the transaction,
\* or with the status the server has for a transaction that is gone
AnswerTx(s, i, verb, u, suffix, b) ==
    LET t == s.open[i]
        within(r) ==
            Reply([s EXCEPT !.open[i].type = r.srv.type, !.open[i].tomb = r.srv.tomb,
                            !.open[i].graph = r.srv.graph, !.open[i].ver = r.srv.ver],
                  r.status, TxUri(i) \o r.text, r.over)
    IN  IF i \notin DOMAIN s.open THEN Reply(s, s.gone, TxUri(i) \o u, FALSE)
        ELSE IF u = <<>> THEN
            IF verb = "POST" /\ suffix = "fcr:tx"
            THEN Reply([s EXCEPT !.open[i].expires = @ \o <<"renewed">>], 204, TxUri(i), FALSE)
            ELSE IF verb = "POST" /\ suffix = "fcr:tx/fcr:commit"
            THEN Reply(Committed(s, i), 204, TxUri(i), FALSE)
            ELSE IF verb = "POST" /\ suffix = "fcr:tx/fcr:rollback"
            THEN Reply(RolledBack(s, i), 204, TxUri(i), FALSE)
            ELSE Reply(s, 200, TxUri(i), FALSE)
        ELSE within(AnswerStore([s EXCEPT !.type = t.type, !.tomb = t.tomb, !.graph = t.graph,
                                          !.ver = t.ver],
                                verb, u, suffix, [b EXCEPT !.dest = WithoutTx(s, @)]))

\* the regular answer of the server to one request
Answer(s, verb, u, suffix, b) ==
    IF IsTxUri(s, u) THEN AnswerTx(s, TxOf(s, u), verb, Tail(u), suffix, b)
    ELSE IF suffix = "fcr:tx" THEN
        IF verb = "POST" /\ u = Root
        THEN Reply([s EXCEPT !.txs = @ \cup {Cardinality(@) + 1},
                             !.open = [j \in DOMAIN @ \cup {Cardinality(s.txs) + 1} |->
                                         IF j \in DOMAIN @ THEN @[j] ELSE BeginTx(s, j)]],
                   201, TxUri(Cardinality(s.txs) + 1), FALSE)
        ELSE Reply(s, 404, u, FALSE)
    ELSE AnswerStore(s, verb, u, suffix, b)

-----------------------------------------------------------------------------
(* The world a call runs in, and API.http_request                           *)

World == [srv |-> srv, res |-> res, dflt |-> dflt, context |-> context, txns |-> txns,
          log |-> <<>>, over |-> FALSE, fetched |-> FALSE]

\* the outcome of a call: the world after it, the exception it raised ("" = none), its value
Ok(w, ret)      == [w |-> w, err |-> "",  ret |-> ret, uri |-> <<>>]
OkUri(w, u)     == [w |-> w, err |-> "",  ret |-> "uri", uri |-> u]
Raise(w, err)   == [w |-> w, err |-> err, ret |-> "", uri |-> <<>>]

\* API.http_request: the n-th request of the call gets the regular answer unless the
\* server fails on it (500), or rejects the media type of a request that carries a body (415)
http_request(w, flt, verb, u, suffix, b) ==
    LET response(r) ==
            [w |-> [w EXCEPT !.srv = r.srv,
                             !.over = @ \/ r.over,
                             !.log = Append(@, [verb |-> verb, uri |-> u, suffix |-> suffix,
                                                data |-> b.data, status |-> r.status])],
             status |-> r.status,
             text |-> r.text]
    IN  response(IF flt.at = Len(w.log) + 1 /\ (flt.status = 415 => verb \in {"PUT", "POST"})
                 THEN Reply(w.srv, flt.status, u, FALSE)
                 ELSE Answer(w.srv, verb, u, suffix, b))

\* the headers of a response to GET u/fcr:metadata
ResponseHeaders(status) ==
    [ct |-> IF status = 200 THEN default_serialization ELSE "text/html", cl |-> "", etag |-> "W/1"]

\* what a caller passes for a URI: None, a str or an rdflib URIRef (anything else is an
\* object of another type).  The text of a str or URIRef is cut at its slashes; a full URI
\* starts with the REST endpoint, a short one is a path.  A URI of the model is the path
\* of the URI below the endpoint.
Endpoint == "http://localhost:8080/rest"
None == [type |-> "NoneType", text |-> <<>>]
Str(text) == [type |-> "str", text |-> text]
FullURI(u) == Str(<<Endpoint>> \o u)
AsURIRef(u) == [type |-> URIRef, text |-> <<Endpoint>> \o u]

\* text.startswith('http'): true of a full URI and of a path such as httpd/x
startswith_http(text) == text # <<>> /\ text[1] \in {Endpoint, "httpd"}

\* rdflib.term.URIRef(text): the URI that the text says; a text that is not a full URI
\* gives a relative reference, which names nothing below the endpoint
ToURIRef(text) == IF text # <<>> /\ text[1] = Endpoint THEN Tail(text) ELSE <<"(relative)">> \o text

\* Repository.parse_uri; root is self.root, which ends with a slash
parse_uri(root, uri) ==
    IF uri.type \in {"NoneType", "str", URIRef} /\ uri.text = <<>> THEN root
    ELSE IF uri.type = "str" THEN
        IF ~startswith_http(uri.text) THEN root \o uri.text
        ELSE ToURIRef(uri.text)
    ELSE IF uri.type = URIRef THEN ToURIRef(uri.text)
    ELSE <<"TypeError">>

\* the Link header of a response: absent, or the set of its link values; a value is the
\* name of an LDP type (<http://www.w3.org/ns/ldp#...>) or another link ("describedby")
LinkHeader(values) == [present |-> TRUE, values |-> values]

\* API.parse_resource_type: response.headers['Link'] raises KeyError when the response has
\* no Link header; else the first of the four types found among the LDP links, or False
parse_resource_type(link_header) ==
    IF ~link_header.present THEN "KeyError"
    ELSE LET links == {link \in link_header.values : link # "describedby"}
         IN  IF NonRDFSource \in links THEN NonRDFSource
             ELSE IF BasicContainer \in links THEN BasicContainer
             ELSE IF DirectContainer \in links THEN DirectContainer
             ELSE IF IndirectContainer \in links THEN IndirectContainer
             ELSE "False"

\* API.parse_rdf_payload: the triples of a payload (the payload is kept as its triples)
parse_rdf_payload(data, headers) == data

-----------------------------------------------------------------------------
(* Resource objects                                                         *)

\* NonRDFSource._build_binary
build_binary == [data |-> FALSE, mimetype |-> "", location |-> "", delivery |-> ""]

\* the headers dict of an object: the class's shared default dict, or a dict of its own
Headers(w, o) == IF o.hdr = "shared" THEN w.dflt[o.kind] ELSE o.headers

\* Resource._parse_graph: the working graph, and its copy the snapshot graph
\* the prefixes a parsed document declares: the customary one of each namespace it uses
namespaces(g) == {b \in RepositoryContext : \E t \in g : compute_qname(t[1]) = b[2]}

parse_graph(o, headers) ==
    LET g == IF o.exists THEN parse_rdf_payload(o.data, headers) ELSE NoGraph
    IN  [o EXCEPT !.graph = g, !.orig = g, !.prefixes = DictUpdate(@, namespaces(g))]

\* Resource._build_rdf: self.rdf.prefixes is populated from repo.context
build_rdf(o, data, headers, repo_context) ==
    parse_graph([o EXCEPT !.rdf = TRUE, !.data = data, !.prefixes = repo_context], headers)

\* Resource.__init__ (hdr tells whether headers were passed or the default dict is used)
ResourceInit(w, repo, kind, u, data, hdr, headers, status_code) ==
    LET o0 == [repo |-> repo, kind |-> kind, uri |-> parse_uri(repo, u), hdr |-> hdr,
               headers |-> headers,
               status_code |-> status_code, exists |-> (status_code = 200),
               rdf |-> FALSE, data |-> NoGraph, graph |-> NoGraph, orig |-> NoGraph,
               prefixes |-> {}, versions |-> {}, binary |-> build_binary]
    IN  build_rdf(o0, data, IF hdr = "shared" THEN w.dflt[kind] ELSE headers, w.context)

\* Resource._handle_object: a Python str, int, float or datetime becomes a literal with
\* its XSD datatype; any other object (an rdflib Literal or URIRef) is passed as it is
handle_object(object_input) ==
    IF object_input[2] = "str" THEN Literal(object_input[1], XSDstring)
    ELSE IF object_input[2] = "int" THEN Literal(object_input[1], "xsd:int")
    ELSE IF object_input[2] = "float" THEN Literal(object_input[1], "xsd:float")
    ELSE IF object_input[2] = "datetime" THEN Literal(object_input[1], "xsd:date")
    ELSE object_input

\* an add_triple that keeps the new triple only
add_triple_overwrites(self, p, o) ==
    [self EXCEPT !.graph = {Triple(p, handle_object(o))}]

\* Resource.add_triple on the object under construction or in use
add_triple(self, p, o) == [self EXCEPT !.graph = @ \cup {Triple(p, handle_object(o))}]

\* the __init__ of the four classes; NonRDFSource.__init__ ends with parse_binary, which
\* reads the mimetype triple and requests the content
New(w, flt, repo, kind, u, data, hdr, headers, status_code) ==
    LET init(o) ==
            IF kind = NonRDFSource THEN
                IF ~o.exists THEN [w |-> w, err |-> "", obj |-> o]
                ELSE IF MimeTriple \notin o.graph
                     THEN [w |-> w, err |-> "AttributeError", obj |-> o]
                ELSE [w |-> http_request(w, flt, "GET", o.uri, "", NoBody).w, err |-> "",
                      obj |-> [o EXCEPT !.binary.mimetype = "text/plain", !.binary.data = TRUE]]
            ELSE IF kind \in {DirectContainer, IndirectContainer}
                 THEN [w |-> w, err |-> "", obj |-> add_triple(o, "rdf:type", <<kind, URIRef>>)]
            ELSE [w |-> w, err |-> "", obj |-> o]
    IN  init(ResourceInit(w, repo, kind, u, data, hdr, headers, status_code))

\* what get_resource hands back when it returns False or raises: no object
NoObject == [repo |-> <<>>, kind |-> "bool", uri |-> <<>>, hdr |-> "own", headers |-> NoHeaders,
             status_code |-> 0, exists |-> FALSE, rdf |-> FALSE, data |-> NoGraph,
             graph |-> NoGraph, orig |-> NoGraph, prefixes |-> {}, versions |-> {},
             binary |-> build_binary]

RECURSIVE rstrip(_, _)
\* str.rstrip(chars) on the text of a URI below the endpoint: it cuts every trailing
\* character that is one of chars, slashes and whole names included, not a suffix.  The
\* names of the model's paths are spelled out; "/" is one of chars
rstrip(u, chars) ==
    LET spelled(name) ==
            CASE name = "fcr:metadata" -> <<"f", "c", "r", ":", "m", "e", "t", "a", "d", "a", "t", "a">>
              [] name = "fcr:versions" -> <<"f", "c", "r", ":", "v", "e", "r", "s", "i", "o", "n", "s">>
              [] name = "v1" -> <<"v", "1">>
              [] name = "v2" -> <<"v", "2">>
              [] name = "tx:1" -> <<"t", "x", ":", "1">>
              [] name = "tx:2" -> <<"t", "x", ":", "2">>
              [] OTHER -> <<name>>
        cut(letters) ==
            IF \A n \in DOMAIN letters : letters[n] \in chars
            THEN rstrip(SubSeq(u, 1, Len(u) - 1), chars)
            ELSE IF letters[Len(letters)] \in chars
            THEN SubSeq(u, 1, Len(u) - 1) \o <<"(cut name)">>
            ELSE u
    IN  IF u = <<>> THEN <<"(cut endpoint)">> ELSE cut(spelled(u[Len(u)]))

\* uri.toPython().endswith('/fcr:metadata'), and what get_resource makes of such a URI
strip_metadata(u) ==
    IF u # <<>> /\ u[Len(u)] = "fcr:metadata"
    THEN rstrip(u, {"/", "f", "c", "r", ":", "m", "e", "t", "a", "d"})
    ELSE u

\* a get_resource that takes a 404 of the type probe for an error
get_resource_raises_on_404(w, flt, repo, uri) ==
    LET u == strip_metadata(parse_uri(repo, uri))
        instance(n) == [w |-> n.w, err |-> n.err, found |-> n.err = "", obj |-> n.obj]
        fetched(resource_type, get_response) ==
            IF resource_type = "False"
            THEN [w |-> get_response.w, err |-> "TypeError", found |-> FALSE, obj |-> NoObject]
            ELSE instance(New(get_response.w, flt, repo, resource_type, AsURIRef(u),
                              IF get_response.status = 200
                              THEN ServedGraph(get_response.w.srv, u) ELSE NoGraph,
                              "own", ResponseHeaders(get_response.status), get_response.status))
        probed(head_response) ==
            IF head_response.status = 200
            THEN fetched(parse_resource_type(LinkHeader(ServedLinks(head_response.w.srv, u))),
                         http_request(head_response.w, flt, "GET", u, "fcr:metadata", NoBody))
            ELSE [w |-> head_response.w, err |-> "RetrieveError", found |-> FALSE,
                  obj |-> NoObject]
    IN  probed(http_request(w, flt, "HEAD", u, "", NoBody))

\* Repository.get_resource: found = FALSE is the return value False
get_resource(w, flt, repo, uri) ==
    LET u == strip_metadata(parse_uri(repo, uri))
        instance(n) == [w |-> n.w, err |-> n.err, found |-> n.err = "", obj |-> n.obj]
        fetched(resource_type, get_response) ==
            IF resource_type = "False"
            THEN [w |-> get_response.w, err |-> "TypeError", found |-> FALSE, obj |-> NoObject]
            ELSE instance(New(get_response.w, flt, repo, resource_type, AsURIRef(u),
                              IF get_response.status = 200
                              THEN ServedGraph(get_response.w.srv, u) ELSE NoGraph,
                              "own", ResponseHeaders(get_response.status), get_response.status))
        typed(head_response, resource_type) ==
            IF resource_type = "KeyError"
            THEN [w |-> head_response.w, err |-> "KeyError", found |-> FALSE, obj |-> NoObject]
            ELSE fetched(resource_type,
                         http_request(head_response.w, flt, "GET", u, "fcr:metadata", NoBody))
        probed(head_response) ==
            IF head_response.status = 404
            THEN [w |-> head_response.w, err |-> "", found |-> FALSE, obj |-> NoObject]
            ELSE IF head_response.status = 200
            THEN typed(head_response,
                       parse_resource_type(LinkHeader(ServedLinks(head_response.w.srv, u))))
            ELSE [w |-> head_response.w, err |-> "RetrieveError", found |-> FALSE,
                  obj |-> NoObject]
    IN  probed(http_request(w, flt, "HEAD", u, "", NoBody))

\* Resource._empty_resource_attributes: `self.rdf = self._build_rdf()` leaves rdf None
empty_resource_attributes(w, o) ==
    LET o1 == [o EXCEPT !.status_code = 404, !.hdr = "own", !.headers = NoHeaders,
                        !.exists = FALSE]
        o2 == [build_rdf(o1, NoGraph, NoHeaders, w.context) EXCEPT !.rdf = FALSE]
    IN  IF o.kind = NonRDFSource THEN [o2 EXCEPT !.binary = build_binary] ELSE o2

\* a type check that lets every type through
type_differs_never(updated_kind, self_kind) == FALSE

\* Resource.refresh: type(updated_self) != type(self)
type_differs(updated_kind, self_kind) == updated_kind # self_kind

\* Resource.refresh
refresh(w, flt, h) ==
    LET self == w.res[h]
        reparsed(o) == IF self.kind # NonRDFSource THEN parse_graph(o, o.headers) ELSE o
        updated(g) ==
            IF g.err # "" THEN Raise(g.w, g.err)
            ELSE IF type_differs(IF g.found THEN g.obj.kind ELSE "bool", self.kind)
                 THEN Raise(g.w, "TypeMismatch")
            ELSE IF g.found THEN
                IF ~self.rdf
                THEN Raise([g.w EXCEPT !.res[h].status_code = g.obj.status_code],
                           "AttributeError")
                ELSE Ok([g.w EXCEPT
                            !.res[h] = [reparsed([self EXCEPT
                                            !.status_code = g.obj.status_code,
                                            !.data = g.obj.data,
                                            !.hdr = "own",
                                            !.headers = g.obj.headers,
                                            !.exists = g.obj.exists])
                                        EXCEPT !.versions = {}],
                            !.fetched = (g.obj.status_code = 200)], "None")
            ELSE Ok([g.w EXCEPT !.res[h] = empty_resource_attributes(g.w, self)], "None")
    IN  updated(get_resource(w, flt, self.repo, AsURIRef(self.uri)))

\* a write to self.headers[key]: it lands in the shared default dict when the object uses it
SetHeader(w, h, key, val) ==
    IF w.res[h].hdr = "shared"
    THEN [w EXCEPT !.dflt[w.res[h].kind] = [@ EXCEPT ![key] = val]]
    ELSE [w EXCEPT !.res[h].headers = [@ EXCEPT ![key] = val]]

\* NonRDFSource._prep_binary_mimetype
prep_binary_mimetype(w, h) ==
    LET self == w.res[h]
        hs == Headers(w, self)
    IN  IF self.binary.mimetype = "" /\ hs.ct = "" THEN Raise(w, "ConfigError")
        ELSE IF self.binary.mimetype # "" /\ hs.ct = ""
             THEN Ok(SetHeader(w, h, "ct", self.binary.mimetype), "None")
        ELSE Ok(w, "None")

\* NonRDFSource._prep_binary_content
prep_binary_content(w, h) ==
    LET self == w.res[h]
        hs == Headers(w, self)
    IN  IF ~self.binary.data /\ self.binary.location = "" /\ hs.cl = ""
        THEN Raise(w, "ConfigError")
        ELSE IF hs.cl # "" THEN Ok([w EXCEPT !.res[h].binary.delivery = "header"], "None")
        ELSE IF self.binary.location # ""
             THEN Ok([SetHeader(w, h, "cl", self.binary.location)
                        EXCEPT !.res[h].binary.delivery = "header"], "None")
        ELSE Ok([w EXCEPT !.res[h].binary.delivery = "payload"], "None")

\* NonRDFSource._prep_binary_data
prep_binary_data(w, h) ==
    LET content(m) == IF m.err # "" THEN m ELSE prep_binary_content(m.w, h)
    IN  content(prep_binary_mimetype(w, h))

RECURSIVE create(_, _, _, _, _, _)
RECURSIVE handle_create(_, _, _, _, _, _)

\* Resource.create, from the choice of the verb to the handling of the response
create_request(w, flt, h, specify_uri, ignore_tombstone, refresh_) ==
    LET self == w.res[h]
        verb == IF specify_uri THEN "PUT" ELSE "POST"
        handled(response) ==
            handle_create(response.w, flt, h, response, ignore_tombstone, refresh_)
        prepared(p) ==
            IF p.err # "" THEN p
            ELSE handled(http_request(p.w, flt, verb, self.uri, "",
                            [NoBody EXCEPT !.ct = Headers(p.w, p.w.res[h]).ct,
                                           !.binary = TRUE,
                                           !.data = p.w.res[h].binary.data]))
    IN  IF self.kind = NonRDFSource THEN prepared(prep_binary_data(w, h))
        ELSE IF ~self.rdf THEN Raise(w, "AttributeError")
        ELSE handled(http_request(SetHeader(w, h, "ct", default_serialization), flt, verb,
                        self.uri, "",
                        [NoBody EXCEPT !.ct = default_serialization, !.g = self.graph,
                                       !.data = TRUE]))

\* a create that does not look at the exists flag
create_unguarded(w, flt, h, specify_uri, ignore_tombstone, refresh_) ==
    create_request(w, flt, h, specify_uri, ignore_tombstone, refresh_)

\* Resource.create
create(w, flt, h, specify_uri, ignore_tombstone, refresh_) ==
    IF w.res[h].exists THEN Raise(w, "Exists")
    ELSE create_request(w, flt, h, specify_uri, ignore_tombstone, refresh_)

\* a response handler that takes a 409 for a success
create_failure_lenient(status) ==
    IF status = 404 THEN "HTTP404"
    ELSE IF status = 409 THEN ""
    ELSE IF status = 415 THEN "HTTP415"
    ELSE "UnknownStatus"

\* Resource._handle_create: the exception of a response that is neither 201 nor 410
create_failure(status) ==
    IF status = 404 THEN "HTTP404"
    ELSE IF status = 409 THEN "HTTP409"
    ELSE IF status = 415 THEN "HTTP415"
    ELSE "UnknownStatus"

\* a response handler that retries the create whatever the answer to the tombstone-clear
handle_create_retries_always(w, flt, h, response, ignore_tombstone, refresh_) ==
    LET done(r) == IF r.err # "" THEN r ELSE Ok(r.w, "True")
        created(w1) == IF ~refresh_ THEN Ok(w1, "True") ELSE done(refresh(w1, flt, h))
        cleared(tombstone_response) ==
            done(create(tombstone_response.w, flt, h, FALSE, FALSE, TRUE))
    IN  IF response.status = 201
        THEN created([w EXCEPT !.res[h].uri = parse_uri(w.res[h].repo, FullURI(response.text))])
        ELSE IF response.status = 410 THEN
            IF ignore_tombstone
            THEN cleared(http_request(w, flt, "DELETE", w.res[h].uri, "fcr:tombstone", NoBody))
            ELSE Raise(w, "Tombstone")
        ELSE Raise(w, create_failure(response.status))

\* Resource._handle_create
handle_create(w, flt, h, response, ignore_tombstone, refresh_) ==
    LET done(r) == IF r.err # "" THEN r ELSE Ok(r.w, "True")
        created(w1) == IF ~refresh_ THEN Ok(w1, "True") ELSE done(refresh(w1, flt, h))
        cleared(tombstone_response) ==
            IF tombstone_response.status # 204
            THEN Raise(tombstone_response.w, "TombstoneNotRemoved")
            ELSE done(create(tombstone_response.w, flt, h, FALSE, FALSE, TRUE))
    IN  IF response.status = 201
        THEN created([w EXCEPT !.res[h].uri = parse_uri(w.res[h].repo, FullURI(response.text))])
        ELSE IF response.status = 410 THEN
            IF ignore_tombstone
            THEN cleared(http_request(w, flt, "DELETE", w.res[h].uri, "fcr:tombstone", NoBody))
            ELSE Raise(w, "Tombstone")
        ELSE Raise(w, create_failure(response.status))

\* Resource.check_exists
check_exists(w, flt, h) ==
    LET checked(response, e) ==
            Ok([response.w EXCEPT !.res[h].status_code = response.status, !.res[h].exists = e],
               IF e THEN "True" ELSE "False")
        head(response) ==
            checked(response, IF response.status = 200 THEN TRUE
                              ELSE IF response.status \in {410, 404} THEN FALSE
                              ELSE w.res[h].exists)
    IN  head(http_request(w, flt, "HEAD", w.res[h].uri, "", NoBody))

\* a move that leaves the source object's exists flag alone
move_keeps_exists(w, flt, h, destination, remove_tombstone) ==
    LET self == w.res[h]
        destination_uri == parse_uri(self.repo, destination)
        moved(w1) ==
            OkUri(IF remove_tombstone
                  THEN http_request(w1, flt, "DELETE", self.uri, "fcr:tombstone", NoBody).w
                  ELSE w1, destination_uri)
        handled(response) ==
            IF response.status = 201 THEN moved(response.w)
            ELSE Raise(response.w, "MoveError")
    IN  handled(http_request(w, flt, "MOVE", self.uri, "",
                    [NoBody EXCEPT !.dest = destination_uri]))

\* Resource.move
move(w, flt, h, destination, remove_tombstone) ==
    LET self == w.res[h]
        destination_uri == parse_uri(self.repo, destination)
        moved(w1) ==
            OkUri(IF remove_tombstone
                  THEN http_request(w1, flt, "DELETE", self.uri, "fcr:tombstone", NoBody).w
                  ELSE w1, destination_uri)
        handled(response) ==
            IF response.status = 201 THEN moved([response.w EXCEPT !.res[h].exists = FALSE])
            ELSE Raise(response.w, "MoveError")
    IN  handled(http_request(w, flt, "MOVE", self.uri, "",
                    [NoBody EXCEPT !.dest = destination_uri]))

\* a copy that treats the source as move does
copy_as_move(w, flt, h, destination) == move(w, flt, h, destination, FALSE)

\* Resource.copy
copy(w, flt, h, destination) ==
    LET self == w.res[h]
        destination_uri == parse_uri(self.repo, destination)
        handled(response) ==
            IF response.status = 201 THEN OkUri(response.w, destination_uri)
            ELSE Raise(response.w, "CopyError")
    IN  handled(http_request(w, flt, "COPY", self.uri, "",
                    [NoBody EXCEPT !.dest = destination_uri]))

\* Resource.delete
delete(w, flt, h, remove_tombstone) ==
    LET self == w.res[h]
        finish(w1) ==
            Ok(IF remove_tombstone
               THEN http_request(w1, flt, "DELETE", self.uri, "fcr:tombstone", NoBody).w
               ELSE w1, "True")
        handled(response) ==
            finish(IF response.status = 204
                   THEN [response.w EXCEPT !.res[h] = empty_resource_attributes(response.w, self)]
                   ELSE response.w)
    IN  handled(http_request(w, flt, "DELETE", self.uri, "", NoBody))

\* a diff whose added graph is the whole working graph
diff_graph_adds_all(o) ==
    [overlap |-> o.orig \cap o.graph, removed |-> o.orig \ o.graph, added |-> o.graph]

\* Resource._diff_graph: overlap, removed (only in the snapshot), added (only in the working graph)
diff_graph(o) ==
    [overlap |-> o.orig \cap o.graph, removed |-> o.orig \ o.graph, added |-> o.graph \ o.orig]

\* SparqlUpdate.__init__
SparqlUpdate(prefixes, diffs) == [prefixes |-> prefixes, diffs |-> diffs]

\* SparqlUpdate._derive_namespaces: the namespace URIs of the predicates of the three
\* graphs, and every entry of the prefix table bound to one of them
derive_namespaces(sq) ==
    LET update_namespaces ==
            {compute_qname(t[1]) : t \in sq.diffs.overlap \cup sq.diffs.removed \cup sq.diffs.added}
    IN  {b \in sq.prefixes : b[2] \in update_namespaces}

\* SparqlUpdate.build_query: the PREFIX lines, the DELETE and the INSERT block
build_query(sq) ==
    [prefix |-> derive_namespaces(sq), del |-> sq.diffs.removed, ins |-> sq.diffs.added]

\* Resource.update, from the PATCH request on
update_request(w, flt, h, refresh_) ==
    LET self == w.res[h]
        sq == build_query(SparqlUpdate(self.prefixes, diff_graph(self)))
        done(r) == IF r.err # "" THEN r ELSE Ok(r.w, "True")
        handled(status, w1) ==
            IF status = 204
            THEN IF ~refresh_ THEN Ok(w1, "True") ELSE done(refresh(w1, flt, h))
            ELSE Ok(w1, "None")
        prepared(status, p) ==
            IF p.err # "" THEN p
            ELSE handled(status, http_request(p.w, flt, "PUT", self.uri, "",
                            [NoBody EXCEPT !.ct = self.binary.mimetype, !.binary = TRUE,
                                           !.data = p.w.res[h].binary.data]).w)
        patched(response) ==
            IF self.kind = NonRDFSource
            THEN prepared(response.status, prep_binary_data(response.w, h))
            ELSE handled(response.status, response.w)
    IN  patched(http_request(w, flt, "PATCH", self.uri, "",
                    [NoBody EXCEPT !.del = sq.del, !.ins = sq.ins, !.data = TRUE]))

\* an update that transmits in dry-run mode too
update_ignores_dry_run(w, flt, h, sparql_query_only, refresh_) ==
    IF ~w.res[h].rdf THEN Raise(w, "AttributeError")
    ELSE update_request(w, flt, h, refresh_)

\* Resource.update
update(w, flt, h, sparql_query_only, refresh_) ==
    IF ~w.res[h].rdf THEN Raise(w, "AttributeError")
    ELSE IF sparql_query_only THEN Ok(w, "query")
    ELSE update_request(w, flt, h, refresh_)

\* a set_triple that writes the snapshot graph as well
set_triple_writes_snapshot(self, p, o) ==
    [self EXCEPT !.graph = {x \in @ : x[1] # p} \cup {Triple(p, handle_object(o))},
                 !.orig = {x \in @ : x[1] # p} \cup {Triple(p, handle_object(o))}]

\* Resource.set_triple: rdflib's Graph.set drops every triple of the predicate first
set_triple(self, p, o) ==
    [self EXCEPT !.graph = {x \in @ : x[1] # p} \cup {Triple(p, handle_object(o))}]

\* Resource.remove_triple
remove_triple(self, p, o) == [self EXCEPT !.graph = @ \ {Triple(p, handle_object(o))}]

-----------------------------------------------------------------------------
(* Versions                                                                 *)

\* ResourceVersion.__init__; current_resource is the handle of the owning object, and
\* version_resource is what get_resource gave (NoObject for False)
ResourceVersion(current_resource, version_resource, version_uri, version_label) ==
    [current_resource |-> current_resource, resource |-> version_resource,
     uri |-> version_uri, label |-> version_label]

\* setattr(self.versions, label, rv) and delattr(self.versions, label)
SetVersion(versions, rv) == {v \in versions : v.label # rv.label} \cup {rv}
DelVersion(versions, label) == {v \in versions : v.label # label}
VersionAt(versions, label) == CHOOSE v \in versions : v.label = label
Labels(versions) == {v.label : v \in versions}

\* Resource._affix_version
affix_version(w, flt, h, version_uri, version_label) ==
    LET affixed(g) ==
            IF g.err # "" THEN Raise(g.w, g.err)
            ELSE Ok([g.w EXCEPT !.res[h].versions =
                        SetVersion(@, ResourceVersion(h, g.obj, version_uri, version_label))],
                    "None")
    IN  affixed(get_resource(w, flt, w.res[h].repo, AsURIRef(version_uri)))

\* a create_version that sends the working graph with the request
create_version_sends_graph(w, flt, h, version_label) ==
    LET self == w.res[h]
        handled(version_response) ==
            IF version_response.status = 201
            THEN affix_version(version_response.w, flt, h, version_response.text, version_label)
            ELSE Ok(version_response.w, "None")
    IN  handled(http_request(w, flt, "POST", self.uri, "fcr:versions",
                    [NoBody EXCEPT !.slug = version_label, !.g = self.graph, !.data = TRUE]))

\* Resource.create_version
create_version(w, flt, h, version_label) ==
    LET self == w.res[h]
        handled(version_response) ==
            IF version_response.status = 201
            THEN affix_version(version_response.w, flt, h, version_response.text, version_label)
            ELSE Ok(version_response.w, "None")
    IN  handled(http_request(w, flt, "POST", self.uri, "fcr:versions",
                    [NoBody EXCEPT !.slug = version_label]))

\* a revert_to that leaves the owning resource as it is
revert_to_without_refresh(w, flt, h, version_label) ==
    LET self == VersionAt(w.res[h].versions, version_label)
        handled(response) ==
            IF response.status = 204 THEN Ok(response.w, "None")
            ELSE Raise(response.w, "RevertError")
    IN  IF self.resource.kind = "bool" THEN Raise(w, "AttributeError")
        ELSE handled(http_request(w, flt, "PATCH", self.uri, "", NoBody))

\* ResourceVersion.revert_to, on the version of the index of h with this label;
\* self.resource.repo raises when the version was not found when it was affixed
revert_to(w, flt, h, version_label) ==
    LET self == VersionAt(w.res[h].versions, version_label)
        handled(response) ==
            IF response.status = 204 THEN refresh(response.w, flt, self.current_resource)
            ELSE Raise(response.w, "RevertError")
    IN  IF self.resource.kind = "bool" THEN Raise(w, "AttributeError")
        ELSE handled(http_request(w, flt, "PATCH", self.uri, "", NoBody))

\* a delete of a version that leaves the index as it is
ResourceVersion_delete_keeps_index(w, flt, self) ==
    LET handled(response) ==
            IF response.status = 204 THEN Ok(response.w, "None")
            ELSE Raise(response.w, IF response.status = 400 THEN "HTTP400" ELSE "DeleteError")
    IN  IF self.resource.kind = "bool" THEN Raise(w, "AttributeError")
        ELSE handled(http_request(w, flt, "DELETE", self.uri, "", NoBody))

\* ResourceVersion.delete; self is the version object, of the index of its owner or
\* held by the caller: delattr raises AttributeError when the index has no such label
ResourceVersion_delete(w, flt, self) ==
    LET handled(response) ==
            IF response.status = 204 THEN
                IF self.label \in Labels(response.w.res[self.current_resource].versions)
                THEN Ok([response.w EXCEPT !.res[self.current_resource].versions =
                            DelVersion(@, self.label)], "None")
                ELSE Raise(response.w, "AttributeError")
            ELSE Raise(response.w, IF response.status = 400 THEN "HTTP400" ELSE "DeleteError")
    IN  IF self.resource.kind = "bool" THEN Raise(w, "AttributeError")
        ELSE handled(http_request(w, flt, "DELETE", self.uri, "", NoBody))

-----------------------------------------------------------------------------
(* Transactions                                                             *)

\* Repository.__init__: self.txns = {}
NoTxns == [name \in {} |-> <<>>]

\* Repository.__init__: the root always ends with a slash
RepositoryRoot(root) == [path |-> root, slash |-> TRUE]

\* a transaction that forgets when it expires
Transaction_without_expiry(repo_context, txn_name, txn_uri, expires) ==
    [name |-> txn_name, root |-> RepositoryRoot(txn_uri), context |-> repo_context,
     txns |-> NoTxns, expires |-> <<>>, active |-> TRUE]

\* Transaction.__init__
Transaction(repo_context, txn_name, txn_uri, expires) ==
    [name |-> txn_name, root |-> RepositoryRoot(txn_uri), context |-> repo_context,
     txns |-> NoTxns, expires |-> expires, active |-> TRUE]

\* Repository.start_txn: uuid is the name uuid.uuid4().hex gives when none is passed; the
\* call returns the transaction, or None when the request is not answered 201
start_txn(w, flt, txn_name, uuid) ==
    LET name == IF txn_name = "" THEN uuid ELSE txn_name
        registered(txn_response, txn) ==
            [w |-> [txn_response.w EXCEPT
                        !.txns = [n \in DOMAIN @ \cup {name} |->
                                    IF n = name THEN txn ELSE @[n]]],
             err |-> "", ret |-> "Transaction", uri |-> txn.root.path]
        handled(txn_response) ==
            IF txn_response.status = 201
            THEN registered(txn_response,
                            Transaction(w.context, name, txn_response.text,
                                        Expires(txn_response.text)))
            ELSE Ok(txn_response.w, "None")
    IN  handled(http_request(w, flt, "POST", Root, "fcr:tx", NoBody))

\* Transaction.keep_alive; the Expires header of the answer is the new time of expiry
keep_alive(w, flt, name) ==
    LET self == w.txns[name]
        handled(txn_response) ==
            IF txn_response.status = 204
            THEN Ok([txn_response.w EXCEPT
                        !.txns[name].active = TRUE,
                        !.txns[name].expires =
                            StoreOf(txn_response.w.srv, self.root.path).expires], "True")
            ELSE IF txn_response.status = 410
            THEN Ok([txn_response.w EXCEPT !.txns[name].active = FALSE], "False")
            ELSE Raise(txn_response.w, "ContinueError")
    IN  handled(http_request(w, flt, "POST", self.root.path, "fcr:tx", NoBody))

\* a close that leaves the transaction active
close_stays_active(w, flt, name, close_type) ==
    LET self == w.txns[name]
        handled(txn_response) ==
            IF txn_response.status = 204 THEN Ok(txn_response.w, "True")
            ELSE IF txn_response.status \in {404, 410} THEN Ok(txn_response.w, "False")
            ELSE Raise(txn_response.w, "CloseError")
    IN  handled(http_request(w, flt, "POST", self.root.path, "fcr:tx/fcr:" \o close_type,
                             NoBody))

\* Transaction._close
close(w, flt, name, close_type) ==
    LET self == w.txns[name]
        handled(txn_response) ==
            IF txn_response.status = 204
            THEN Ok([txn_response.w EXCEPT !.txns[name].active = FALSE], "True")
            ELSE IF txn_response.status \in {404, 410}
            THEN Ok([txn_response.w EXCEPT !.txns[name].active = FALSE], "False")
            ELSE Raise(txn_response.w, "CloseError")
    IN  handled(http_request(w, flt, "POST", self.root.path, "fcr:tx/fcr:" \o close_type,
                             NoBody))

\* Transaction.commit
commit(w, flt, name) == close(w, flt, name, "commit")

\* a rollback that asks for a commit
rollback_commits(w, flt, name) == close(w, flt, name, "commit")

\* Transaction.rollback
rollback(w, flt, name) == close(w, flt, name, "rollback")

-----------------------------------------------------------------------------
(* The calls of the program: one action per method                          *)

\* the predicates and Python objects the caller edits with: titles given as str, and a type
EditTriples == {<<"dc:title", <<t, "str">>>> : t \in Titles}
                   \cup {<<"rdf:type", <<DirectContainer, URIRef>>>>}

NoArgs == [specify_uri |-> FALSE, ignore_tombstone |-> FALSE, refresh |-> FALSE,
           remove_tombstone |-> FALSE, sparql_query_only |-> FALSE, uri |-> <<>>,
           p |-> "", o |-> <<>>, txn_name |-> "", version_label |-> "", context |-> {}]

\* the call takes effect; a call whose answer needs a path outside URIs is not taken
Commit(r, op, h, args) ==
    /\ calls < MaxCalls
    /\ ~r.w.over
    /\ calls' = calls + 1
    /\ srv' = r.w.srv
    /\ res' = r.w.res
    /\ dflt' = r.w.dflt
    /\ context' = r.w.context
    /\ txns' = r.w.txns
    /\ last' = [op |-> op, h |-> h, args |-> args, err |-> r.err, ret |-> r.ret,
                uri |-> r.uri, log |-> r.w.log, fetched |-> r.w.fetched]

\* h = Kind(repo, uri)
Construct(h, kind, u) ==
    LET bound(n) == Ok([n.w EXCEPT !.res[h] = n.obj], "None")
    IN  Commit(bound(New(World, NoFault, Root, kind, Str(u), NoGraph, "shared", NoHeaders, 0)),
               "construct", h, [NoArgs EXCEPT !.uri = u])

\* h = repo.get_resource(uri); the handle keeps its object when no resource comes back
GetResource(h, u, flt) ==
    LET bound(g) == IF g.err # "" THEN Raise(g.w, g.err)
                    ELSE IF g.found THEN Ok([g.w EXCEPT !.res[h] = g.obj], "resource")
                    ELSE Ok(g.w, "False")
    IN  Commit(bound(get_resource(World, flt, Root, Str(u))), "get_resource", h,
               [NoArgs EXCEPT !.uri = u])

Create(h, specify_uri, ignore_tombstone, refresh_, flt) ==
    Commit(create(World, flt, h, specify_uri, ignore_tombstone, refresh_), "create", h,
           [NoArgs EXCEPT !.specify_uri = specify_uri, !.ignore_tombstone = ignore_tombstone,
                          !.refresh = refresh_])

Refresh(h, flt) == Commit(refresh(World, flt, h), "refresh", h, NoArgs)

CheckExists(h, flt) == Commit(check_exists(World, flt, h), "check_exists", h, NoArgs)

Delete(h, remove_tombstone, flt) ==
    Commit(delete(World, flt, h, remove_tombstone), "delete", h,
           [NoArgs EXCEPT !.remove_tombstone = remove_tombstone])

Move(h, destination, remove_tombstone, flt) ==
    Commit(move(World, flt, h, AsURIRef(destination), remove_tombstone), "move", h,
           [NoArgs EXCEPT !.remove_tombstone = remove_tombstone, !.uri = destination])

Copy(h, destination, flt) ==
    Commit(copy(World, flt, h, AsURIRef(destination)), "copy", h,
           [NoArgs EXCEPT !.uri = destination])

Update(h, sparql_query_only, refresh_, flt) ==
    Commit(update(World, flt, h, sparql_query_only, refresh_), "update", h,
           [NoArgs EXCEPT !.sparql_query_only = sparql_query_only, !.refresh = refresh_])

\* add_triple, set_triple, remove_triple: self.rdf.graph raises when self.rdf is None
Edit(op, h, p, o) ==
    LET self == res[h]
        edited == IF op = "add_triple" THEN add_triple(self, p, o)
                  ELSE IF op = "set_triple" THEN set_triple(self, p, o)
                  ELSE remove_triple(self, p, o)
    IN  Commit(IF ~self.rdf THEN Raise(World, "AttributeError")
               ELSE Ok([World EXCEPT !.res[h] = edited], "None"), op, h,
               [NoArgs EXCEPT !.p = p, !.o = o])

AddTriple(h, p, o) == Edit("add_triple", h, p, o)
SetTriple(h, p, o) == Edit("set_triple", h, p, o)
RemoveTriple(h, p, o) == Edit("remove_triple", h, p, o)

\* h.binary.data = ...; h.binary.mimetype = ...   (test_create_child_binary)
SetBinary(h, location) ==
    /\ res[h].kind = NonRDFSource
    /\ Commit(Ok([World EXCEPT !.res[h].binary.data = (location = ""),
                               !.res[h].binary.location = location,
                               !.res[h].binary.mimetype = "text/plain"], "None"),
              "set_binary", h, NoArgs)

\* the repository the program finds: empty, or with the tombstone an earlier
\* create and delete(remove_tombstone=False) of /x left behind
EmptyRepo == [type |-> [u \in URIs |-> Absent], tomb |-> {}, graph |-> [u \in URIs |-> NoGraph],
              ver |-> [u \in URIs |-> <<>>], txs |-> {}, open |-> <<>>, gone |-> 410]
InitialRepos == {EmptyRepo, [EmptyRepo EXCEPT !.tomb = {X}]}

\* the program starts with A = BasicContainer(repo, 'x')
Init ==
    /\ srv \in InitialRepos
    /\ dflt = [k \in Kinds |-> NoHeaders]
    /\ context = RepositoryContext
    /\ txns = NoTxns
    /\ res = [h \in Handles |->
                ResourceInit([dflt |-> dflt, context |-> context], Root, BasicContainer, Str(X),
                             NoGraph,
                             "shared", NoHeaders, 0)]
    /\ calls = 0
    /\ last = [op |-> "init", h |-> "A", args |-> NoArgs, err |-> "", ret |-> "None",
               uri |-> <<>>, log |-> <<>>, fetched |-> FALSE]

Next ==
    \/ \E h \in Handles, k \in Kinds, u \in URIs : Construct(h, k, u)
    \/ \E h \in Handles, u \in URIs, flt \in Faults : GetResource(h, u, flt)
    \/ \E h \in Handles, s \in BOOLEAN, i \in BOOLEAN, r \in BOOLEAN, flt \in Faults :
          Create(h, s, i, r, flt)
    \/ \E h \in Handles, flt \in Faults : Refresh(h, flt)
    \/ \E h \in Handles, flt \in Faults : CheckExists(h, flt)
    \/ \E h \in Handles, t \in BOOLEAN, flt \in Faults : Delete(h, t, flt)
    \/ \E h \in Handles, d \in URIs, t \in BOOLEAN, flt \in Faults : Move(h, d, t, flt)
    \/ \E h \in Handles, d \in URIs, flt \in Faults : Copy(h, d, flt)
    \/ \E h \in Handles, q \in BOOLEAN, r \in BOOLEAN, flt \in Faults : Update(h, q, r, flt)
    \/ \E h \in Handles, t \in EditTriples : AddTriple(h, t[1], t[2])
    \/ \E h \in Handles, t \in EditTriples : SetTriple(h, t[1], t[2])
    \/ \E h \in Handles, t \in EditTriples : RemoveTriple(h, t[1], t[2])
    \/ \E h \in Handles, l \in {"", "http://example.org/content"} : SetBinary(h, l)

Spec == Init /\ [][Next]_vars

-----------------------------------------------------------------------------
(* Editing the graph of a fetched container (test_add_triples, test_set_triple,   *)
(* test_remove_triple), with every kind of object and of prefix table              *)

\* titles given as str and as rdflib Literal without datatype, a type, and a predicate of
\* a namespace that no prefix is bound to
WideEditTriples ==
    EditTriples \cup {<<"dc:title", Literal("t1", "")>>, <<"ex:note", <<"n", "str">>>>}

\* the repository holds the container /x; the program starts with
\* repo = Repository(root, username, password, context), with no context or with one that
\* binds a second prefix to the dc namespace (a given context is merged into the class's
\* dictionary), and A = repo.get_resource('x')
InitEdit ==
    /\ srv = Put(EmptyRepo, X, BasicContainer, NoGraph)
    /\ dflt = [k \in Kinds |-> NoHeaders]
    /\ context \in {DictUpdate(RepositoryContext, c) : c \in {{}, {<<"dce", DC>>}}}
    /\ txns = NoTxns
    /\ res = [h \in Handles |->
                get_resource([srv |-> srv, res |-> <<>>, dflt |-> dflt, context |-> context,
                              txns |-> txns, log |-> <<>>, over |-> FALSE, fetched |-> FALSE],
                             NoFault, Root, Str(X)).obj]
    /\ calls = 0
    /\ last = [op |-> "init", h |-> "A", args |-> NoArgs, err |-> "", ret |-> "None",
               uri |-> <<>>, log |-> <<>>, fetched |-> FALSE]

NextEdit ==
    \/ \E h \in Handles, t \in WideEditTriples : AddTriple(h, t[1], t[2])
    \/ \E h \in Handles, t \in WideEditTriples : SetTriple(h, t[1], t[2])
    \/ \E h \in Handles, t \in WideEditTriples : RemoveTriple(h, t[1], t[2])
    \/ \E h \in Handles, q \in BOOLEAN, r \in BOOLEAN, flt \in Faults : Update(h, q, r, flt)
    \/ \E h \in Handles, flt \in Faults : Refresh(h, flt)

SpecEdit == InitEdit /\ [][NextEdit]_vars

-----------------------------------------------------------------------------
(* Transactions of a repository                                                    *)

\* the names a caller gives its transactions; "" stands for no name
TxnNames == {"", "t1", "t2"}

\* txn = repo.start_txn(txn_name); a uuid4 is a name that was never given before
StartTxn(txn_name, flt) ==
    Commit(start_txn(World, flt, txn_name, "uuid" \o ToString(calls)), "start_txn", "A",
           [NoArgs EXCEPT !.txn_name = txn_name])

\* repo = Repository(root, username, password, context): Repository.context is an
\* attribute of the class, self.context.update(context) writes into that one dictionary
Repository(context_in) ==
    Commit(Ok([World EXCEPT !.context = IF context_in # {} THEN DictUpdate(@, context_in) ELSE @],
              "Repository"),
           "Repository", "A", [NoArgs EXCEPT !.context = context_in])

NextTxn ==
    \/ \E context_in \in {{}, {<<"dce", DC>>}} : Repository(context_in)
    \/ \E txn_name \in TxnNames, flt \in Faults : StartTxn(txn_name, flt)
    \/ \E h \in Handles, s \in BOOLEAN, flt \in Faults : Create(h, s, FALSE, TRUE, flt)

SpecTxn == Init /\ [][NextTxn]_vars

-----------------------------------------------------------------------------
(* Work in a transaction: a resource made through the transaction, the transaction *)
(* kept alive, committed and rolled back, and the repository looked at from outside *)
(* (console.py, benchmark_create_basic_container)                                  *)

\* the status a server answers with for a transaction that is gone; a gateway in front
\* of the server may answer so as well while the server still holds the transaction
GoneStatuses == {404, 410}

\* the program starts with txn = repo.start_txn('t1'); A = BasicContainer(txn, 'x')
InitScope ==
    /\ srv \in {[EmptyRepo EXCEPT !.txs = {1}, !.open = [i \in {1} |-> BeginTx(EmptyRepo, i)],
                                 !.gone = status] : status \in GoneStatuses}
    /\ dflt = [k \in Kinds |-> NoHeaders]
    /\ context = RepositoryContext
    /\ txns = [name \in {"t1"} |->
                 Transaction(context, name, TxUri(1), Expires(TxUri(1)))]
    /\ res = [h \in Handles |->
                ResourceInit([dflt |-> dflt, context |-> context], TxUri(1), BasicContainer,
                             Str(X), NoGraph, "shared", NoHeaders, 0)]
    /\ calls = 0
    /\ last = [op |-> "init", h |-> "A", args |-> NoArgs, err |-> "", ret |-> "None",
               uri |-> <<>>, log |-> <<>>, fetched |-> FALSE]

\* h = txn.get_resource(uri)
GetResourceIn(h, name, u, flt) ==
    LET bound(g) == IF g.err # "" THEN Raise(g.w, g.err)
                    ELSE IF g.found THEN Ok([g.w EXCEPT !.res[h] = g.obj], "resource")
                    ELSE Ok(g.w, "False")
    IN  Commit(bound(get_resource(World, flt, txns[name].root.path, Str(u))), "get_resource", h,
               [NoArgs EXCEPT !.uri = u, !.txn_name = name])

KeepAlive(name, flt) ==
    Commit(keep_alive(World, flt, name), "keep_alive", "A", [NoArgs EXCEPT !.txn_name = name])

TxnCommit(name, flt) ==
    Commit(commit(World, flt, name), "commit", "A", [NoArgs EXCEPT !.txn_name = name])

TxnRollback(name, flt) ==
    Commit(rollback(World, flt, name), "rollback", "A", [NoArgs EXCEPT !.txn_name = name])

NextScope ==
    \/ \E h \in Handles, s \in BOOLEAN, r \in BOOLEAN, flt \in Faults :
          Create(h, s, FALSE, r, flt)
    \/ \E h \in Handles, flt \in Faults : CheckExists(h, flt)
    \/ \E h \in Handles, u \in {X} \cup {v \o <<"fcr:metadata">> : v \in URIs}, flt \in Faults :
          GetResource(h, u, flt)
    \/ \E h \in Handles, name \in DOMAIN txns, flt \in Faults : GetResourceIn(h, name, X, flt)
    \/ \E name \in DOMAIN txns, flt \in Faults \cup [at : {1}, status : GoneStatuses] :
          KeepAlive(name, flt)
    \/ \E name \in DOMAIN txns, flt \in Faults \cup [at : {1}, status : GoneStatuses] :
          TxnCommit(name, flt)
    \/ \E name \in DOMAIN txns, flt \in Faults \cup [at : {1}, status : GoneStatuses] :
          TxnRollback(name, flt)

SpecScope == InitScope /\ [][NextScope]_vars

-----------------------------------------------------------------------------
(* Versions of a container: made, reverted to and deleted, while the container is  *)
(* edited, updated, refreshed and deleted                                          *)

VersionLabelsUsed == {"v1", "v2"}

\* h.create_version(version_label)
CreateVersion(h, version_label, flt) ==
    Commit(create_version(World, flt, h, version_label), "create_version", h,
           [NoArgs EXCEPT !.version_label = version_label])

\* h.versions.<version_label>.revert_to(); the attribute is there
RevertTo(h, version_label, flt) ==
    /\ version_label \in Labels(res[h].versions)
    /\ Commit(revert_to(World, flt, h, version_label), "revert_to", h,
              [NoArgs EXCEPT !.version_label = version_label])

\* version.delete(), on a version of the index of its owner or on the one the caller holds
DeleteVersion(version, flt) ==
    Commit(ResourceVersion_delete(World, flt, version), "version_delete",
           version.current_resource, [NoArgs EXCEPT !.version_label = version.label])

\* the repository holds the container /x, with titles or without; the program starts
\* with A = repo.get_resource('x'); A.create_version('v1'); v = A.versions.v1
InitVersion ==
    /\ dflt = [k \in Kinds |-> NoHeaders]
    /\ context = RepositoryContext
    /\ txns = NoTxns
    /\ \E repo \in {Put(EmptyRepo, X, BasicContainer, g) : g \in {NoGraph, TitleTriples}} :
          LET fetched(g) == [g.w EXCEPT !.res = [h \in Handles |-> g.obj], !.log = <<>>]
              versioned(w) == create_version(w, NoFault, "A", "v1").w
              held(w) == [h \in Handles \cup {"v"} |->
                            IF h = "v" THEN VersionAt(w.res["A"].versions, "v1") ELSE w.res[h]]
              started(w) == srv = w.srv /\ res = held(w)
          IN  started(versioned(fetched(
                  get_resource([srv |-> repo, res |-> <<>>, dflt |-> dflt, context |-> context,
                                txns |-> txns, log |-> <<>>, over |-> FALSE,
                                fetched |-> FALSE], NoFault, Root, Str(X)))))
    /\ calls = 0
    /\ last = [op |-> "init", h |-> "A", args |-> NoArgs, err |-> "", ret |-> "None",
               uri |-> <<>>, log |-> <<>>, fetched |-> FALSE]

NextVersion ==
    \/ \E h \in Handles, l \in VersionLabelsUsed, flt \in Faults : CreateVersion(h, l, flt)
    \/ \E h \in Handles, l \in VersionLabelsUsed, flt \in Faults : RevertTo(h, l, flt)
    \/ \E h \in Handles : \E version \in res[h].versions \cup {res["v"]}, flt \in Faults :
          DeleteVersion(version, flt)
    \/ \E h \in Handles, t \in EditTriples : AddTriple(h, t[1], t[2])
    \/ \E h \in Handles, t \in EditTriples : RemoveTriple(h, t[1], t[2])
    \/ \E h \in Handles, r \in BOOLEAN, flt \in Faults : Update(h, FALSE, r, flt)
    \/ \E h \in Handles, flt \in Faults : Refresh(h, flt)
    \/ \E h \in Handles, t \in BOOLEAN, flt \in Faults : Delete(h, t, flt)

SpecVersion == InitVersion /\ [][NextVersion]_vars

-----------------------------------------------------------------------------
(* API.parse_resource_type on the responses a server may give                      *)

\* a response has come in, without a Link header or with any set of link values: the four
\* types, another LDP link and a link of another kind
InitResolve ==
    /\ srv = EmptyRepo
    /\ dflt = [k \in Kinds |-> NoHeaders]
    /\ context = RepositoryContext
    /\ txns = NoTxns
    /\ res = [h \in Handles |-> NoObject]
    /\ calls = 0
    /\ \E link_header \in
             {[present |-> FALSE, values |-> {}]}
                 \cup {LinkHeader(v) : v \in SUBSET (Kinds \cup {"ldp:Resource", "describedby"})} :
          last = [op |-> "response", link |-> link_header, ret |-> ""]

\* resource_type = self.api.parse_resource_type(head_response)
ParseResourceType ==
    /\ last.op = "response"
    /\ last' = [last EXCEPT !.op = "parse_resource_type", !.ret = parse_resource_type(last.link)]
    /\ UNCHANGED <<srv, res, dflt, context, txns, calls>>

SpecResolve == InitResolve /\ [][ParseResourceType]_vars

-----------------------------------------------------------------------------
(* Repository.parse_uri on the inputs a caller may pass to a repository or to a    *)
(* transaction (TestURIParsing)                                                    *)

\* None, '', short and full strings, URIRefs of full and of short URIs, and an int; the
\* short paths include two with a first word that begins with "http", the full URIs are
\* of resources of the repository and of a transaction
URIInputs ==
    LET KnownURIs == URIs \cup {TxUri(1) \o u : u \in URIs}
    IN  {None, Str(<<>>), [type |-> "int", text |-> <<>>]}
            \cup {Str(path) : path \in URIs \cup {<<"httpd">>, <<"httpd", "x">>}}
            \cup {FullURI(u) : u \in KnownURIs}
            \cup {AsURIRef(u) : u \in KnownURIs}
            \cup {[type |-> URIRef, text |-> path] : path \in URIs}

\* a view (the repository or one of two transactions) has been handed a URI input
InitUri ==
    /\ srv = EmptyRepo
    /\ dflt = [k \in Kinds |-> NoHeaders]
    /\ context = RepositoryContext
    /\ txns = NoTxns
    /\ res = [h \in Handles |-> NoObject]
    /\ calls = 0
    /\ \E root \in {Root, TxUri(1), TxUri(2)}, uri \in URIInputs :
          last = [op |-> "input", root |-> root, uri |-> uri, ret |-> <<>>]

\* uri = self.parse_uri(uri)
ParseUri ==
    /\ last.op = "input"
    /\ last' = [last EXCEPT !.op = "parse_uri", !.ret = parse_uri(last.root, last.uri)]
    /\ UNCHANGED <<srv, res, dflt, context, txns, calls>>

SpecUri == InitUri /\ [][ParseUri]_vars

-----------------------------------------------------------------------------
(* Two objects of one process: two fetched objects of the same container, each     *)
(* edited in its own way, or two binaries, one prepared for its creation and one   *)
(* constructed without headers and without a mimetype                              *)

\* the program starts with A = repo.get_resource('x'); B = repo.get_resource('x');
\* A.add_triple(dc:title, 't2'); B.remove_triple(dc:title, 't1') or B.add_triple(dc:title,
\* 't3'), where /x has the title t1; or with A = NonRDFSource(repo, 'x'), its binary.data
\* or binary.location and its binary.mimetype set, and B = NonRDFSource(repo, 'y'), with
\* binary.data set or not
InitPair ==
    /\ dflt = [k \in Kinds |-> NoHeaders]
    /\ context = RepositoryContext
    /\ txns = NoTxns
    /\ \/ /\ srv = Put(EmptyRepo, X, BasicContainer, {Triple("dc:title", Literal("t1", XSDstring))})
          /\ \E edit \in {"remove_triple", "add_triple"} :
                LET fetched == get_resource([srv |-> srv, res |-> <<>>, dflt |-> dflt,
                                             context |-> context, txns |-> txns, log |-> <<>>,
                                             over |-> FALSE, fetched |-> FALSE],
                                            NoFault, Root, Str(X)).obj
                IN  res = [h \in {"A", "B"} |->
                             IF h = "A" THEN add_triple(fetched, "dc:title", <<"t2", "str">>)
                             ELSE IF edit = "add_triple"
                             THEN add_triple(fetched, "dc:title", <<"t3", "str">>)
                             ELSE remove_triple(fetched, "dc:title", <<"t1", "str">>)]
       \/ /\ srv = EmptyRepo
          /\ \E location \in {"", "http://example.org/content"}, data \in BOOLEAN :
                LET constructed(u) ==
                        ResourceInit([dflt |-> dflt, context |-> context], Root, NonRDFSource,
                                     Str(u), NoGraph, "shared", NoHeaders, 0)
                IN  res = [h \in {"A", "B"} |->
                             IF h = "A"
                             THEN [constructed(X) EXCEPT !.binary.data = (location = ""),
                                                         !.binary.location = location,
                                                         !.binary.mimetype = "text/plain"]
                             ELSE [constructed(Y) EXCEPT !.binary.data = data]]
    /\ calls = 0
    /\ last = [op |-> "init", h |-> "A", args |-> NoArgs, err |-> "", ret |-> "None",
               uri |-> <<>>, log |-> <<>>, fetched |-> FALSE]

\* the calls on the two objects; a request may fail at the first request of a call
NextPair ==
    \/ \E h \in DOMAIN res, s \in BOOLEAN, flt \in {f \in Faults : f.at <= 1} :
          Create(h, s, FALSE, FALSE, flt)
    \/ \E h \in DOMAIN res, r \in BOOLEAN, flt \in {f \in Faults : f.at <= 1} :
          Update(h, FALSE, r, flt)
    \/ \E h \in DOMAIN res, t \in EditTriples : AddTriple(h, t[1], t[2])
    \/ \E h \in DOMAIN res, t \in EditTriples : RemoveTriple(h, t[1], t[2])

SpecPair == InitPair /\ [][NextPair]_vars

-----------------------------------------------------------------------------
(* Properties                                                               *)

\* the object the last call was made on
Self == res[last.h]

\* the requests of the last call, by what they ask for
IsCreateRequest(q) == q.verb \in {"PUT", "POST"} /\ q.suffix = ""
IsTombstoneClear(q) == q.verb = "DELETE" /\ q.suffix = "fcr:tombstone"
Count(log, P(_)) == Cardinality({i \in DOMAIN log : P(log[i])})
Sent(log) == Len(log) >= 1
\* every request of the last call got the server's regular answer
NoFaultIn(log) == \A i \in DOMAIN log : log[i].status \notin FaultStatuses

\* C1: create() on a resource whose exists flag is true raises and sends no request,
\* whatever its arguments and whatever the kind of the resource.
C1_CreateOnExistingFails ==
    [][(last'.op = "create" /\ res[last'.h].exists)
        => (last'.err = "Exists" /\ last'.log = <<>> /\ srv' = srv /\ res' = res)]_vars

C1_Witness ==
    /\ last.op = "create" /\ last.err = "Exists"
    /\ last.args.specify_uri /\ last.args.ignore_tombstone

\* C2 (as claimed): when the create request is answered 201 the resource has the URI the
\* server confirmed and exists = TRUE, with and without the refresh.
C2_CreatedExistsAsClaimed ==
    (last.op = "create" /\ Sent(last.log) /\ last.log[1].status = 201 /\ NoFaultIn(last.log))
        => (Self.exists /\ SrvExists(srv, Self.uri))

\* C3 (as claimed): where /x has a tombstone, create(specify_uri=True, ignore_tombstone=True)
\* of /x ends with exists = TRUE after one tombstone-clear and two create requests.
C3_TombstoneRecoveryAsClaimed ==
    (/\ last.op = "create" /\ last.args.specify_uri /\ last.args.ignore_tombstone
     /\ Sent(last.log) /\ last.log[1].status = 410 /\ last.log[1].uri = X
     /\ NoFaultIn(last.log))
        => (/\ last.err = ""
            /\ Self.exists
            /\ Count(last.log, IsTombstoneClear) = 1
            /\ Count(last.log, IsCreateRequest) = 2)

C5_RefreshReplacesAsClaimed ==
    last.fetched
        => (/\ Self.rdf
            /\ Self.orig = ServedGraph(srv, Self.uri)
            /\ Self.graph = Self.orig
            /\ Self.hdr = "own" /\ Self.headers = ResponseHeaders(200)
            /\ Self.exists)

\* C6 (as claimed): refresh() of a resource whose type probe is answered 404 does not raise;
\* the object ends with exists = FALSE and empty headers, graphs and binary record.
C6_RefreshGoneAsClaimed ==
    (last.op = "refresh" /\ Sent(last.log) /\ last.log[1].status = 404)
        => (/\ last.err = ""
            /\ ~Self.exists
            /\ Headers(World, Self) = NoHeaders
            /\ Self.graph = NoGraph /\ Self.orig = NoGraph
            /\ Self.binary = build_binary)

\* C7: refresh() raises whenever the server reports another resource type than the local
\* object's, and then leaves the object (headers, graphs, exists, versions) as it was.
C7_TypeMismatchRaises ==
    [][(/\ last'.op = "refresh" /\ Sent(last'.log) /\ last'.log[1].status = 200
        /\ srv.type[res[last'.h].uri] # res[last'.h].kind)
        => (last'.err = "TypeMismatch" /\ res' = res /\ dflt' = dflt)]_vars

C7_Witness ==
    /\ last.op = "refresh" /\ last.err = "TypeMismatch"
    /\ Sent(last.log) /\ last.log[1].status = 200
    /\ Self.kind = DirectContainer /\ srv.type[Self.uri] = BasicContainer

\* C8 (as claimed): after a delete() whose DELETE is answered 204 the object has
\* exists = FALSE, empty headers and two empty graphs, and add_triple can still be used.
C8_DeleteResetsAsClaimed ==
    (last.op = "delete" /\ Sent(last.log) /\ last.log[1].status = 204)
        => (/\ ~Self.exists
            /\ Headers(World, Self) = NoHeaders
            /\ Self.rdf /\ Self.graph = NoGraph /\ Self.orig = NoGraph
            /\ (Self.kind = NonRDFSource => Self.binary = build_binary))

\* C9 (as claimed): delete() whose DELETE is not answered 204, and update() whose PATCH is
\* not answered 204, raise.
C9_FailuresRaisedAsClaimed ==
    (/\ last.op \in {"delete", "update"}
     /\ Sent(last.log) /\ last.log[1].status # 204)
        => last.err # ""

SuccessfulUpdate ==
    /\ last'.op = "update" /\ ~last'.args.sparql_query_only /\ last'.args.refresh
    /\ last'.err = "" /\ last'.ret = "True" /\ last'.fetched
    /\ res[last'.h].exists /\ res[last'.h].kind # NonRDFSource

\* C12 (as claimed): after edits and a successful update() with its refresh, the working
\* graph of a container contains every added triple and none of the removed ones, and the
\* snapshot graph equals the working graph, so that a second update() has an empty diff.
C12_UpdateKeepsEditsAsClaimed ==
    [][SuccessfulUpdate =>
        LET before == diff_graph(res[last'.h])
            after == res'[last'.h]
        IN  /\ before.added \subseteq after.graph
            /\ before.removed \cap after.graph = {}
            /\ after.orig = after.graph
            /\ diff_graph(after).removed = {} /\ diff_graph(after).added = {}]_vars

\* C13: update(sparql_query_only=True) sends no request and changes neither the graphs,
\* the headers nor the exists flag; on an object that has its rdf namespace it returns
\* the update document.
C13_DryRunSendsNothing ==
    [][(last'.op = "update" /\ last'.args.sparql_query_only) =>
        /\ last'.log = <<>>
        /\ srv' = srv /\ res' = res /\ dflt' = dflt
        /\ res[last'.h].rdf => (last'.err = "" /\ last'.ret = "query")]_vars

C13_Witness ==
    /\ last.op = "update" /\ last.args.sparql_query_only /\ last.ret = "query"
    /\ Self.exists /\ Self.graph \ Self.orig # {} /\ Self.orig \ Self.graph # {}

\* the update document update() builds for an object
Document(o) == build_query(SparqlUpdate(o.prefixes, diff_graph(o)))
\* the namespace URIs the predicates of an object's diff refer to
Referenced(o) == {compute_qname(t[1]) : t \in o.orig \cup o.graph}

C15_EditsIdempotent ==
    [][(last'.op \in {"add_triple", "remove_triple"} /\ last'.err = "") =>
        LET h == last'.h
            p == last'.args.p
            o == last'.args.o
            t == Triple(p, handle_object(o))
        IN  IF last'.op = "add_triple"
            THEN /\ t \in res[h].graph => res'[h].graph = res[h].graph
                 /\ res'[h].graph = res[h].graph \cup {t}
                 /\ add_triple(res'[h], p, o).graph = res'[h].graph
            ELSE /\ t \notin res[h].graph => res'[h].graph = res[h].graph
                 /\ res'[h].graph = res[h].graph \ {t}
                 /\ remove_triple(res'[h], p, o).graph = res'[h].graph]_vars

C15_Witness ==
    /\ last.op = "add_triple" /\ last.err = "" /\ calls = 3
    /\ Triple(last.args.p, handle_object(last.args.o)) \in Self.orig
    /\ Self.graph = Self.orig /\ Cardinality(Self.graph) = 2

\* C16: add_triple, set_triple and remove_triple never change the snapshot graph, nor
\* anything of the object but its working graph.
C16_EditsKeepSnapshot ==
    [][last'.op \in {"add_triple", "set_triple", "remove_triple"} =>
        /\ res'[last'.h].orig = res[last'.h].orig
        /\ res' = [res EXCEPT ![last'.h].graph = res'[last'.h].graph]
        /\ srv' = srv /\ last'.log = <<>>]_vars

C16_Witness ==
    /\ last.op = "set_triple" /\ last.err = ""
    /\ Self.orig # {} /\ Self.graph \ Self.orig # {} /\ Self.orig \ Self.graph # {}

\* C17 (as claimed): the update document has exactly one PREFIX line for each namespace URI
\* its predicates refer to, also where two prefixes are bound to one namespace URI, and no
\* PREFIX line for another namespace (stated for the namespaces that have a prefix).
C17_OnePrefixPerNamespaceAsClaimed ==
    Self.rdf =>
        /\ \A ns \in Referenced(Self) :
              (\E b \in Self.prefixes : b[2] = ns)
                  => Cardinality({b \in Document(Self).prefix : b[2] = ns}) = 1
        /\ \A b \in Document(Self).prefix : b[2] \in Referenced(Self)

\* C18 (as claimed): update() of an object whose diff uses a namespace URI without a prefix
\* in its prefix table raises a configuration error and sends nothing.
C18_UnboundNamespaceFailsAsClaimed ==
    [][(/\ last'.op = "update" /\ res[last'.h].rdf
        /\ \E ns \in Referenced(res[last'.h]) : \A b \in res[last'.h].prefixes : b[2] # ns)
        => (last'.err = "ConfigError" /\ last'.log = <<>>)]_vars

\* the four types, in the order of their priority
TypePriority == <<NonRDFSource, BasicContainer, DirectContainer, IndirectContainer>>
\* the type of highest priority among the link values, "False" when there is none
HighestType(values) ==
    IF \E i \in 1..4 : TypePriority[i] \in values
    THEN TypePriority[CHOOSE i \in 1..4 :
            TypePriority[i] \in values /\ \A j \in 1..(i - 1) : TypePriority[j] \notin values]
    ELSE "False"

\* C19 (as claimed): the resolver returns the type of highest priority (NonRDFSource >
\* BasicContainer > DirectContainer > IndirectContainer) among the link values, and the
\* type-unknown signal False, not an error, when none of the four is there, also when the
\* response declares no link at all.
C19_ResolverAsClaimed ==
    last.op = "parse_resource_type" => last.ret = HighestType(last.link.values)

\* the same for the responses that have a Link header
C19_ResolverWithLinkHeader ==
    (last.op = "parse_resource_type" /\ last.link.present)
        => last.ret = HighestType(last.link.values)

\* C20: after start_txn(name) answered 201 the transaction table maps the name (a name
\* that was never given before, when none is passed) to the returned transaction: its
\* root is the URI the server issued, its expiry the server's Expires value, and it is
\* active; the other entries stay.  Answered otherwise, the table is unchanged.
C20_StartTxnRegisters ==
    [][last'.op = "start_txn" =>
        IF last'.log[1].status = 201
        THEN \E name \in DOMAIN txns' :
                /\ IF last'.args.txn_name = "" THEN name \notin DOMAIN txns \cup TxnNames
                                               ELSE name = last'.args.txn_name
                /\ DOMAIN txns' = DOMAIN txns \cup {name}
                /\ \A n \in DOMAIN txns \ {name} : txns'[n] = txns[n]
                /\ txns'[name].name = name
                /\ \E i \in srv'.txs \ srv.txs :
                      /\ txns'[name].root = [path |-> TxUri(i), slash |-> TRUE]
                      /\ txns'[name].expires = Expires(TxUri(i))
                      /\ last'.uri = TxUri(i)
                /\ txns'[name].active
                /\ last'.err = "" /\ last'.ret = "Transaction"
        ELSE txns' = txns /\ last'.err = ""]_vars

C20_Witness ==
    /\ last.op = "start_txn" /\ last.log[1].status = 201 /\ last.args.txn_name = ""
    /\ Cardinality(DOMAIN txns) = 3 /\ "t1" \in DOMAIN txns
    /\ \A n \in DOMAIN txns : txns[n].active

\* C25 (as claimed): whenever the exists flag of a Resource is true, the HTTP status the
\* resource has recorded last is 200 or 201; an operation that records another status
\* does not leave exists true.
C25_ExistsMeansOkStatusAsClaimed ==
    \A h \in Handles : res[h].exists => res[h].status_code \in {200, 201}

\* C26: after delete() with its default tombstone removal has deleted a resource (both
\* requests answered 204), get_resource for the URI of that resource returns False without
\* raising and sends the type probe only, no GET of the metadata.
C26_GetAfterDeleteIsFalse ==
    [][(/\ last.op = "delete" /\ last.args.remove_tombstone
        /\ Len(last.log) = 2 /\ last.log[1].status = 204 /\ last.log[2].status = 204
        /\ last'.op = "get_resource" /\ last'.args.uri = last.log[1].uri
        /\ NoFaultIn(last'.log))
        => (/\ last'.err = "" /\ last'.ret = "False"
            /\ Len(last'.log) = 1
            /\ last'.log[1].verb = "HEAD" /\ last'.log[1].suffix = ""
            /\ last'.log[1].uri = last.log[1].uri
            /\ res' = res /\ srv' = srv)]_vars

C26_Witness ==
    /\ last.op = "get_resource" /\ last.ret = "False" /\ last.err = ""
    /\ last.args.uri = res["A"].uri
    /\ calls = 3 /\ res["A"].status_code = 404 /\ ~res["A"].rdf
    /\ srv \in InitialRepos

\* a str or URIRef input that is a full absolute URI, and one that is a relative path
IsFullInput(uri) == uri.type \in {"str", URIRef} /\ uri.text # <<>> /\ uri.text[1] = Endpoint
IsRelativeInput(uri) == uri.type \in {"str", URIRef} /\ uri.text # <<>> /\ uri.text[1] # Endpoint

\* C21 (as claimed): every relative URI input is resolved against the root of the view
\* (repository or transaction) it is given to, and a full absolute URI is used unchanged
\* by every view.
C21_RelativeUnderRootAsClaimed ==
    last.op = "parse_uri" =>
        /\ IsRelativeInput(last.uri) => last.ret = last.root \o last.uri.text
        /\ IsFullInput(last.uri) => last.ret = Tail(last.uri.text)

\* the same for the short strings that do not begin with "http"
C21_ShortStringUnderRoot ==
    last.op = "parse_uri" =>
        /\ (/\ IsRelativeInput(last.uri) /\ last.uri.type = "str"
            /\ ~startswith_http(last.uri.text)) => last.ret = last.root \o last.uri.text
        /\ IsFullInput(last.uri) => last.ret = Tail(last.uri.text)

\* the transaction the last call was made on
Txn == txns[last.args.txn_name]

\* C22: when a resource was created through a transaction and the transaction is then
\* rolled back, a fetch of the resource through the root repository, at its path outside
\* the transaction, reports that it does not exist.
C22_RollbackDropsCreated ==
    [][(/\ last.op = "rollback" /\ last.ret = "True"
        /\ IsUnder(res[last'.h].uri, Txn.root.path)
        /\ last'.op = "get_resource" /\ last'.args.txn_name = ""
        /\ last'.args.uri = SubSeq(res[last'.h].uri, 2, Len(res[last'.h].uri))
        /\ NoFaultIn(last'.log))
        => (/\ last'.err = "" /\ last'.ret = "False"
            /\ last'.log[1].uri = last'.args.uri
            /\ ~SrvExists(srv', last'.args.uri))]_vars

C22_Witness ==
    /\ last.op = "get_resource" /\ last.args.txn_name = "" /\ last.ret = "False"
    /\ calls = 3 /\ ~txns["t1"].active /\ srv.open = <<>>
    /\ res["A"].exists /\ res["A"].uri = TxUri(1) \o X /\ last.args.uri = X

\* C23 (as claimed): keep_alive() answered 204 takes the new expiry from the answer and
\* returns True; answered 410 or 404 it sets active to False and returns False without
\* raising, as commit() and rollback() do.
C23_KeepAliveAsClaimed ==
    [][last'.op = "keep_alive" =>
        LET name == last'.args.txn_name
            status == last'.log[1].status
        IN  /\ status = 204 =>
                    /\ last'.err = "" /\ last'.ret = "True"
                    /\ txns'[name].expires = srv'.open[1].expires
                    /\ txns'[name].expires # txns[name].expires
            /\ status \in GoneStatuses =>
                    /\ last'.err = "" /\ last'.ret = "False"
                    /\ ~txns'[name].active]_vars

\* the same with 410 as the only status of a transaction that is gone
C23_KeepAliveOn204And410 ==
    [][last'.op = "keep_alive" =>
        LET name == last'.args.txn_name
            status == last'.log[1].status
        IN  /\ status = 204 =>
                    /\ last'.err = "" /\ last'.ret = "True"
                    /\ txns'[name].expires = srv'.open[1].expires
                    /\ txns'[name].expires # txns[name].expires
            /\ status = 410 =>
                    /\ last'.err = "" /\ last'.ret = "False"
                    /\ ~txns'[name].active]_vars

\* C24: commit() and rollback() send the same request but for the closing action; each
\* returns True exactly when it is answered 204 and False when it is answered 404 or 410,
\* and then the transaction is not active; with any other status the call raises and the
\* active flag stays as it was.
C24_CloseOutcomes ==
    [][last'.op \in {"commit", "rollback"} =>
        LET name == last'.args.txn_name
            status == last'.log[1].status
        IN  /\ Len(last'.log) = 1
            /\ last'.log[1].verb = "POST" /\ last'.log[1].uri = txns[name].root.path
            /\ last'.log[1].suffix = "fcr:tx/fcr:" \o last'.op
            /\ (last'.err = "" /\ last'.ret = "True") <=> status = 204
            /\ (last'.err = "" /\ last'.ret = "False") <=> status \in {404, 410}
            /\ status \in {204, 404, 410} => ~txns'[name].active
            /\ status \notin {204, 404, 410} => (last'.err # "" /\ txns' = txns)
            /\ DOMAIN txns' = DOMAIN txns
            /\ \A n \in DOMAIN txns :
                  [txns'[n] EXCEPT !.active = TRUE] = [txns[n] EXCEPT !.active = TRUE]]_vars

\* a commit was answered 204, and a rollback of the same transaction after it was answered
\* with the status of a transaction that is gone
C24_Witness ==
    /\ last.op = "rollback" /\ last.ret = "False" /\ last.log[1].status = 404
    /\ ~txns["t1"].active /\ SrvExists(srv, X)

C28_VersionDelete ==
    [][last'.op = "version_delete" =>
        LET h == last'.h
            label == last'.args.version_label
        IN  /\ last'.log[1].verb = "DELETE"
            /\ last'.log[1].uri = VersionUri(res[h].uri, label)
            /\ last'.log[1].status = 204 =>
                    /\ label \in Labels(res[h].versions) => last'.err = ""
                    /\ label \notin Labels(res'[h].versions)
                    /\ res'[h] = [res[h] EXCEPT !.versions = DelVersion(@, label)]
            /\ last'.log[1].status # 204 => (last'.err # "" /\ res' = res)]_vars

\* the older of two versions was deleted
C28_Witness ==
    /\ last.op = "version_delete" /\ last.err = "" /\ last.log[1].status = 204
    /\ last.args.version_label = "v1"
    /\ Labels(res["A"].versions) = {"v2"}
    /\ VersionLabels(srv, X) = {"v2"}

\* C29 (as claimed): after delete() of the owning resource was answered 204, the version
\* index of the owning resource holds no ResourceVersion.
C29_DeleteDropsVersionsAsClaimed ==
    [][(last'.op = "delete" /\ last'.log[1].status = 204)
        => res'[last'.h].versions = {}]_vars

\* C30: create_version(label) sends its request, without a payload, to fcr:versions of
\* the resource; answered 201, the version is fetched and put into the version index
\* under the label, with the owner as its current resource; the snapshot and working
\* graphs of the owner, and everything but its index, stay as they are.
C30_CreateVersion ==
    [][last'.op = "create_version" =>
        LET h == last'.h
            label == last'.args.version_label
            log == last'.log
            version_uri == VersionUri(res[h].uri, label)
        IN  /\ Len(log) >= 1
            /\ log[1].verb = "POST" /\ log[1].uri = res[h].uri
            /\ log[1].suffix = "fcr:versions" /\ ~log[1].data
            /\ res'[h] = [res[h] EXCEPT !.versions = res'[h].versions]
            /\ (log[1].status = 201 /\ NoFaultIn(log)) =>
                    /\ last'.err = ""
                    /\ label \in Labels(res'[h].versions)
                    /\ res'[h].versions =
                            SetVersion(res[h].versions, VersionAt(res'[h].versions, label))
                    /\ VersionAt(res'[h].versions, label).current_resource = h
                    /\ VersionAt(res'[h].versions, label).uri = version_uri
                    /\ VersionAt(res'[h].versions, label).resource.uri = version_uri
                    /\ VersionAt(res'[h].versions, label).resource.exists
                    /\ VersionAt(res'[h].versions, label).resource.graph
                            = ServedGraph(srv, res[h].uri)
            /\ log[1].status # 201 => res' = res]_vars

\* a version was made of a container that has local edits: the version holds what the
\* server has, not the edits
C30_Witness ==
    /\ last.op = "create_version" /\ last.err = "" /\ last.log[1].status = 201
    /\ last.args.version_label = "v2"
    /\ res["A"].graph # res["A"].orig
    /\ VersionAt(res["A"].versions, "v2").resource.graph = res["A"].orig
    /\ Labels(res["A"].versions) = {"v1", "v2"}

C34_RetryRepeatsRequestAsClaimed ==
    (last.op = "create" /\ Count(last.log, IsCreateRequest) = 2) =>
        /\ last.log[3].verb = last.log[1].verb
        /\ last.log[3].uri = last.log[1].uri

\* C35 (as claimed): a transaction whose active flag is false keeps it false, whatever is
\* called on it afterwards and whatever is answered.
C35_InactiveStaysInactiveAsClaimed ==
    [][\A name \in DOMAIN txns : ~txns[name].active => ~txns'[name].active]_vars

\* C36 (as claimed): every transaction in the transaction table of the repository is
\* active.
C36_TableHoldsOpenOnlyAsClaimed ==
    \A name \in DOMAIN txns : txns[name].active

\* C38 (as claimed): a Repository constructed without a custom context has exactly the
\* default context, whatever repositories were constructed before it.
C38_DefaultContextAsClaimed ==
    (last.op = "Repository" /\ last.args.context = {}) => context = RepositoryContext

\* C39 (as claimed): a ResourceVersion.delete() answered 204 does not raise and leaves the
\* label out of the version index of the owner, also where the owner was refreshed after
\* the caller took the version object.
C39_ConfirmedDeleteCompletesAsClaimed ==
    [][(last'.op = "version_delete" /\ last'.log[1].status = 204)
        => (/\ last'.err = ""
            /\ last'.args.version_label \notin Labels(res'[last'.h].versions))]_vars

\* C40 (as claimed): get_resource of u/fcr:metadata, for every resource URI u, sends its
\* type probe to u and its metadata request to u/fcr:metadata, and a resource it returns
\* has the URI u.
C40_MetadataSuffixIgnoredAsClaimed ==
    [][(/\ last'.op = "get_resource" /\ last'.args.uri # <<>>
        /\ last'.args.uri[Len(last'.args.uri)] = "fcr:metadata")
        => LET u == SubSeq(last'.args.uri, 1, Len(last'.args.uri) - 1)
               log == last'.log
           IN  /\ log[1].verb = "HEAD" /\ log[1].uri = u /\ log[1].suffix = ""
               /\ Len(log) >= 2 =>
                     log[2].verb = "GET" /\ log[2].uri = u /\ log[2].suffix = "fcr:metadata"
               /\ last'.ret = "resource" => res'[last'.h].uri = u]_vars

\* the same for the resource URIs that do not end with one of the characters of the suffix
C40_MetadataSuffixIgnoredForX ==
    [][(/\ last'.op = "get_resource" /\ last'.args.uri \in {X \o <<"fcr:metadata">>,
                                                           Y \o <<"fcr:metadata">>})
        => LET u == SubSeq(last'.args.uri, 1, Len(last'.args.uri) - 1)
               log == last'.log
           IN  /\ log[1].verb = "HEAD" /\ log[1].uri = u /\ log[1].suffix = ""
               /\ Len(log) >= 2 =>
                     log[2].verb = "GET" /\ log[2].uri = u /\ log[2].suffix = "fcr:metadata"
               /\ last'.ret = "resource" => res'[last'.h].uri = u]_vars

\* the headers an object has: its own dict, or the default dict of its class
HeadersOf(o, defaults) == Headers([dflt |-> defaults], o)

\* C31 (as claimed): create() of a binary that was constructed without headers and has no
\* mimetype, or no data and no location, raises a configuration error and sends no
\* request, whatever was created before.
C31_UnpreparedBinaryFailsAsClaimed ==
    [][(/\ last'.op = "create"
        /\ res[last'.h].kind = NonRDFSource /\ ~res[last'.h].exists
        /\ res[last'.h].hdr = "shared"
        /\ \/ res[last'.h].binary.mimetype = ""
           \/ ~res[last'.h].binary.data /\ res[last'.h].binary.location = "")
        => (last'.err = "ConfigError" /\ last'.log = <<>>)]_vars

\* the same where the headers dict the object reads has no Content-Type, or no
\* Content-Location, at the time of the call
C31_FailsWithoutAnyHeader ==
    [][(/\ last'.op = "create"
        /\ res[last'.h].kind = NonRDFSource /\ ~res[last'.h].exists
        /\ \/ res[last'.h].binary.mimetype = "" /\ HeadersOf(res[last'.h], dflt).ct = ""
           \/ /\ ~res[last'.h].binary.data /\ res[last'.h].binary.location = ""
              /\ HeadersOf(res[last'.h], dflt).cl = "")
        => (last'.err = "ConfigError" /\ last'.log = <<>>)]_vars

\* C32 (as claimed): A and B were fetched at the same state of /x and edited differently;
\* after A.update() and then B.update() were both answered 204, the graph the server
\* holds is the working graph B had, without what A wrote.
C32_LastWriterWinsAsClaimed ==
    [][(/\ calls = 1 /\ last.op = "update" /\ last.h = "A" /\ last.log[1].status = 204
        /\ last'.op = "update" /\ last'.h = "B" /\ last'.log[1].status = 204
        /\ res["B"].kind = BasicContainer)
        => srv'.graph[X] = Stored({t \in res["B"].graph : ~ServerManaged(t)})]_vars

\* C37 (as claimed): create() and update() of one object leave the headers of every other
\* object as they are.
C37_HeadersPrivateAsClaimed ==
    [][last'.op \in {"create", "update"}
        => \A g \in DOMAIN res \ {last'.h} :
              HeadersOf(res'[g], dflt') = HeadersOf(res[g], dflt)]_vars

====
